---- MODULE Spec2Model ----
(***************************************************************************)
(* A model of rsmath: Matrix2D<T> (src/src/matrix2d.rs), Complex<T>        *)
(* (src/src/complex.rs) and the direct-summation transform fft             *)
(* (src/src/fft.rs).                                                       *)
(*                                                                         *)
(* The scalar type T is modelled by exact rationals [n, d] in lowest       *)
(* terms, d > 0.  The value with d = 0 stands for the outcome of a scalar  *)
(* division by zero (a panic for Decimal and the integers, NaN or an       *)
(* infinity for the floats); it absorbs every later operation.             *)
(* Rust indexes from 0, TLA+ sequences from 1: row i of the source is      *)
(* data[i + 1] here.                                                       *)
(***************************************************************************)
EXTENDS Integers, Sequences, FiniteSets, TLC

VARIABLES
  a, b, call, arg, res, edits, steps,      \* Matrix2D: the caller's bindings and call
  z, n0, frames, ret, pc, mults,           \* Complex::pow: self, n, the pending calls
  fx, fk, fn, acc, out, folds, fpc         \* fft: the input, the two loops, the output

mvars == <<a, b, call, arg, res, edits, steps>>

pvars == <<z, n0, frames, ret, pc, mults>>

fvars == <<fx, fk, fn, acc, out, folds, fpc>>

vars == <<mvars, pvars, fvars>>

(***************************************************************************)
(* Bounds of the model.                                                    *)
(***************************************************************************)
MaxDim == 3

MaxVal == 2

MaxEdits == 1

MaxChain == 1

MaxAbs == 9

MaxPow == 3

MaxDepth == 5

(***************************************************************************)
(* The scalar type T: exact rationals.                                     *)
(***************************************************************************)
Abs(x) == IF x < 0 THEN -x ELSE x

RECURSIVE Gcd(_, _)
Gcd(x, y) == IF y = 0 THEN x ELSE Gcd(y, x % y)

DivZ == [n |-> 0, d |-> 0]

IsDivZ(x) == x.d = 0

Norm(n, d) ==
  LET g == Gcd(Abs(n), Abs(d))
      s == IF d < 0 THEN -1 ELSE 1
  IN  [n |-> s * (n \div g), d |-> s * (d \div g)]

R(k) == [n |-> k, d |-> 1]

Zero == R(0)

One == R(1)

\* The least common denominator keeps the intermediate integers small.
Lcd(x, y) == (x.d \div Gcd(x.d, y.d)) * y.d

SAdd(x, y) ==
  IF IsDivZ(x) \/ IsDivZ(y) THEN DivZ
  ELSE LET l == Lcd(x, y)
       IN  Norm(x.n * (l \div x.d) + y.n * (l \div y.d), l)

SSub(x, y) ==
  IF IsDivZ(x) \/ IsDivZ(y) THEN DivZ
  ELSE LET l == Lcd(x, y)
       IN  Norm(x.n * (l \div x.d) - y.n * (l \div y.d), l)

SMul(x, y) ==
  IF IsDivZ(x) \/ IsDivZ(y) THEN DivZ ELSE Norm(x.n * y.n, x.d * y.d)

SDiv(x, y) ==
  IF IsDivZ(x) \/ IsDivZ(y) \/ y.n = 0 THEN DivZ ELSE Norm(x.n * y.d, x.d * y.n)

\* Iterator::sum and Iterator::product over a sequence of scalars, left to right.
RECURSIVE SumSeq(_)
SumSeq(s) == IF Len(s) = 0 THEN Zero ELSE SAdd(SumSeq(SubSeq(s, 1, Len(s) - 1)), s[Len(s)])

RECURSIVE ProductSeq(_)
ProductSeq(s) ==
  IF Len(s) = 0 THEN One ELSE SMul(ProductSeq(SubSeq(s, 1, Len(s) - 1)), s[Len(s)])

(***************************************************************************)
(* Complex<T>                                                              *)
(***************************************************************************)
Complex(re, im) == [re |-> re, im |-> im]

CZero == Complex(Zero, Zero)

\* Complex::add
cadd(self, operand) == Complex(SAdd(self.re, operand.re), SAdd(self.im, operand.im))

\* Complex::substract
csubstract(self, operand) ==
  Complex(SSub(self.re, operand.re), SSub(self.im, operand.im))

\* Complex::multiply
multiply(self, operand) ==
  Complex(SSub(SMul(self.re, operand.re), SMul(self.im, operand.im)),
          SAdd(SMul(self.im, operand.re), SMul(self.re, operand.im)))

\* Complex::divide
divide(self, operand) ==
  LET divisor == SAdd(SMul(operand.re, operand.re), SMul(operand.im, operand.im))
  IN  Complex(SDiv(SAdd(SMul(self.re, operand.re), SMul(self.im, operand.im)), divisor),
              SDiv(SSub(SMul(self.im, operand.re), SMul(self.re, operand.im)), divisor))

\* Mutant of pow_base: the recursion stops at 0.
pow_base_zero(nn) == nn = 0

\* Complex::pow, the arm `x if x == 1`
pow_base(nn) == nn = 1

(***************************************************************************)
(* fft: the rotation factor.  theta = -TAU * n * k / length is kept in     *)
(* quarter turns; Decimal's sin and cos are taken as exact, which they are *)
(* to the 1e-16 the test of the source asks for.  The lengths of the model *)
(* are those whose rotation factors are rational: 4 * n * k / length is an *)
(* integer.                                                                *)
(***************************************************************************)
Lengths == {0, 1, 2, 4}

Theta(nn, kk, length) == ((-4) * nn * kk) \div length

CosQ(theta) == CASE theta % 4 = 0 -> 1 [] theta % 4 = 2 -> -1 [] OTHER -> 0

SinQ(theta) == CASE theta % 4 = 1 -> 1 [] theta % 4 = 3 -> -1 [] OTHER -> 0

\* Mutant of fft_fold: the sample is not rotated.
fft_fold_plain(xn, nn, kk, length) == xn

\* fft_fold
fft_fold(xn, nn, kk, length) ==
  LET theta == Theta(nn, kk, length)
      sin == SinQ(theta)
      cos == CosQ(theta)
  IN  multiply(xn, Complex(R(cos), R(sin)))

(***************************************************************************)
(* Matrix2D<T> and the outcome of a call.                                  *)
(***************************************************************************)
Matrix(data, width) == [data |-> data, width |-> width]

NoMatrix == Matrix(<<>>, 0)

RowCount(m) == Len(m.data)

\* What a call produced: Ok (m, and m2 for the pair of lu_decomposition, s for the
\* scalar of det), Err (err: a Matrix2DError), Panic (index out of bounds, unwrap
\* of an Err), DivByZero (whatever T's division by zero produces), or None.
Outcome(tag, err, m, m2, s) == [tag |-> tag, err |-> err, m |-> m, m2 |-> m2, s |-> s]

None == Outcome("None", "None", NoMatrix, NoMatrix, Zero)

Ok(m) == Outcome("Ok", "None", m, NoMatrix, Zero)

OkPair(l, u) == Outcome("Ok", "None", l, u, Zero)

OkScalar(s) == Outcome("Ok", "None", NoMatrix, NoMatrix, s)

Err(e) == Outcome("Err", e, NoMatrix, NoMatrix, Zero)

Panic == Outcome("Panic", "None", NoMatrix, NoMatrix, Zero)

DivByZero == Outcome("DivByZero", "None", NoMatrix, NoMatrix, Zero)

Matrix2DError ==
  {"NotMultiplicable", "NotAdditive", "NotSquare", "EmptyMatrix", "EmptyRow",
   "InconsistentRowLength"}

\* Mutant of new: the rows are compared before the first row is looked at.
new_rows_first(data) ==
  IF Len(data) = 0 THEN Err("EmptyMatrix")
  ELSE LET width == Len(data[1])
       IN  IF ~(\A i \in 1..Len(data) : Len(data[i]) = width)
           THEN Err("InconsistentRowLength")
           ELSE IF width = 0 THEN Err("EmptyRow")
                ELSE Ok(Matrix(data, width))

\* Matrix2D::new
new(data) ==
  IF Len(data) = 0 THEN Err("EmptyMatrix")
  ELSE LET width == Len(data[1])
       IN  IF width = 0 THEN Err("EmptyRow")
           ELSE IF ~(\A i \in 1..Len(data) : Len(data[i]) = width)
                THEN Err("InconsistentRowLength")
                ELSE Ok(Matrix(data, width))

\* Matrix2D::diag: new(..).unwrap() panics when new fails (size = 0)
diag(size, value) ==
  LET data == [i \in 1..size |-> [j \in 1..size |-> IF i = j THEN value ELSE Zero]]
      r == new(data)
  IN  IF r.tag = "Ok" THEN r ELSE Panic

is_multiplicable(self, operand) == self.width = Len(operand.data)

is_additive(self, operand) ==
  self.width = operand.width /\ Len(self.data) = Len(operand.data)

\* Mutant of is_square: a matrix with more rows than columns passes.
is_square_or_tall(self) == Len(self.data) >= Len(self.data[1])

is_square(self) == Len(self.data) = Len(self.data[1])

\* r.iter().fold(T::zero(), |acc, x| acc + (*x * y)): row r against the one cell y
RECURSIVE FoldRow(_, _)
FoldRow(r, y) ==
  IF Len(r) = 0 THEN Zero
  ELSE SAdd(FoldRow(SubSeq(r, 1, Len(r) - 1), y), SMul(r[Len(r)], y))

\* Mutant of mul: the cached width is the number of rows of the result.
mul_width_of_rows(self, operand) ==
  IF ~is_multiplicable(self, operand) THEN Err("NotMultiplicable")
  ELSE IF \E idx \in 1..Len(self.data) : idx > Len(operand.data) THEN Panic
  ELSE LET result ==
             [idx \in 1..Len(self.data) |->
                [jdx \in 1..Len(operand.data[idx]) |->
                   FoldRow(self.data[idx], operand.data[idx][jdx])]]
       IN  IF Len(result) = 0 THEN Panic
           ELSE Ok(Matrix(result, Len(result)))

\* Matrix2D::mul: row idx of self is folded against the cells of row idx of
\* operand; operand[idx] is out of range when self has more rows than operand.
mul(self, operand) ==
  IF ~is_multiplicable(self, operand) THEN Err("NotMultiplicable")
  ELSE IF \E idx \in 1..Len(self.data) : idx > Len(operand.data) THEN Panic
  ELSE LET result ==
             [idx \in 1..Len(self.data) |->
                [jdx \in 1..Len(operand.data[idx]) |->
                   FoldRow(self.data[idx], operand.data[idx][jdx])]]
       IN  IF Len(result) = 0 THEN Panic
           ELSE Ok(Matrix(result, Len(result[1])))

\* row1.iter().zip(row2.iter()): as many pairs as the shorter row has
Min(x, y) == IF x < y THEN x ELSE y

\* Matrix2D::add
add(self, operand) ==
  IF ~is_additive(self, operand) THEN Err("NotAdditive")
  ELSE LET data ==
             [i \in 1..Min(Len(self.data), Len(operand.data)) |->
                [j \in 1..Min(Len(self.data[i]), Len(operand.data[i])) |->
                   SAdd(self.data[i][j], operand.data[i][j])]]
           r == new(data)
       IN  IF r.tag = "Ok" THEN r ELSE Panic

\* Mutant of substract: the body of add, copied and not changed.
substract_adds(self, operand) == add(self, operand)

\* Matrix2D::substract
substract(self, operand) ==
  IF ~is_additive(self, operand) THEN Err("NotAdditive")
  ELSE LET data ==
             [i \in 1..Min(Len(self.data), Len(operand.data)) |->
                [j \in 1..Min(Len(self.data[i]), Len(operand.data[i])) |->
                   SSub(self.data[i][j], operand.data[i][j])]]
           r == new(data)
       IN  IF r.tag = "Ok" THEN r ELSE Panic

\* Mutant of LuCell: the lower branch reads u[j][k] for u[k][j].
LuCell_u_transposed(self, lu, i, j) ==
  LET l == lu[1]
      u == lu[2]
  IN  IF i <= j
      THEN LET sum == SumSeq([k \in 1..(i - 1) |-> SMul(l[i][k], u[k][j])])
           IN  <<l, [u EXCEPT ![i][j] = SSub(self.data[i][j], sum)]>>
      ELSE LET sum == SumSeq([k \in 1..(j - 1) |-> SMul(l[i][k], u[j][k])])
           IN  <<[l EXCEPT ![i][j] = SDiv(SSub(self.data[i][j], sum), u[j][j])], u>>

\* One cell (i, j) of the loop of lu_decomposition, on the working copies l and u.
LuCell(self, lu, i, j) ==
  LET l == lu[1]
      u == lu[2]
  IN  IF i <= j
      THEN LET sum == SumSeq([k \in 1..(i - 1) |-> SMul(l[i][k], u[k][j])])
           IN  <<l, [u EXCEPT ![i][j] = SSub(self.data[i][j], sum)]>>
      ELSE LET sum == SumSeq([k \in 1..(j - 1) |-> SMul(l[i][k], u[k][j])])
           IN  <<[l EXCEPT ![i][j] = SDiv(SSub(self.data[i][j], sum), u[j][j])], u>>

\* for i in 0..width { for j in 0..width { .. } }: cell t of the row-major order
RECURSIVE LuLoop(_, _, _)
LuLoop(self, lu, t) ==
  IF t = 0 THEN lu
  ELSE LuCell(self, LuLoop(self, lu, t - 1), ((t - 1) \div self.width) + 1,
              ((t - 1) % self.width) + 1)

HasDivZ(rows) == \E i \in 1..Len(rows) : \E j \in 1..Len(rows[i]) : IsDivZ(rows[i][j])

\* Matrix2D::lu_decomposition
lu_decomposition(self) ==
  IF ~is_square(self) THEN Err("NotSquare")
  ELSE LET l0 == diag(self.width, One).m.data
           u0 == diag(self.width, Zero).m.data
           lu == LuLoop(self, <<l0, u0>>, self.width * self.width)
           l == [i \in 1..self.width |-> [lu[1][i] EXCEPT ![i] = One]]
           u == lu[2]
       IN  IF HasDivZ(lu[1]) \/ HasDivZ(u) THEN DivByZero
           ELSE OkPair(Matrix(l, self.width), Matrix(u, self.width))

\* Mutant of det: the pair is taken apart the wrong way round, let (u, _) = ..
det_of_l(self) ==
  IF ~is_square(self) THEN Err("NotSquare")
  ELSE IF self.width = 1 THEN OkScalar(self.data[1][1])
  ELSE LET r == lu_decomposition(self)
       IN  IF r.tag # "Ok" THEN r
           ELSE OkScalar(ProductSeq([idx \in 1..Len(r.m.data) |-> r.m.data[idx][idx]]))

\* Matrix2D::det
det(self) ==
  IF ~is_square(self) THEN Err("NotSquare")
  ELSE IF self.width = 1 THEN OkScalar(self.data[1][1])
  ELSE LET r == lu_decomposition(self)
       IN  IF r.tag # "Ok" THEN r
           ELSE OkScalar(ProductSeq([idx \in 1..Len(r.m2.data) |-> r.m2.data[idx][idx]]))

(***************************************************************************)
(* Inputs: rows of the lengths lens, filled from a seed.                   *)
(***************************************************************************)
Fill(s, i, j) == R(s + (IF i < j THEN i ELSE j))

Rows(lens, s) == [i \in 1..Len(lens) |-> [j \in 1..lens[i] |-> Fill(s, i, j)]]

Shapes == UNION {[1..r -> 0..MaxDim] : r \in 0..MaxDim}

RawInputs == {Rows(lens, s) : lens \in Shapes, s \in 0..MaxVal}

SeqInputs == {Rows(lens, MaxVal) : lens \in Shapes}

Values == {R(k) : k \in 0..MaxVal}

CellValues == {R(k) : k \in -1..MaxVal}

\* The arguments of the last constructor call.
Args(data, size, value) == [data |-> data, size |-> size, value |-> value]

NoArg == Args(<<>>, 0, Zero)

(***************************************************************************)
(* The caller: two bindings a and b that hold matrices (NoMatrix: not yet  *)
(* bound), the call in progress, what it was given and what it returned.   *)
(* Every method takes &self and &operand: a call leaves a and b alone.     *)
(***************************************************************************)
MatrixIdle ==
  /\ b = NoMatrix
  /\ call = "idle"
  /\ arg = NoArg
  /\ res = None
  /\ edits = 0
  /\ steps = 0

PowIdle ==
  /\ frames = <<>>
  /\ ret = CZero
  /\ pc = "idle"
  /\ mults = 0

FftIdle ==
  /\ fk = 0
  /\ fn = 0
  /\ acc = CZero
  /\ out = <<>>
  /\ folds = 0
  /\ fpc = "idle"

Init ==
  /\ a = NoMatrix
  /\ MatrixIdle
  /\ z = CZero /\ n0 = 1 /\ PowIdle
  /\ fx = <<>> /\ FftIdle

\* Matrix2D::new(data)
NewFrom(inputs) ==
  /\ call = "idle"
  /\ a = NoMatrix \/ b = NoMatrix
  /\ \E data \in inputs :
       /\ arg' = Args(data, 0, Zero)
       /\ res' = new(data)
  /\ call' = "new"
  /\ UNCHANGED <<a, b, edits, steps>>
  /\ UNCHANGED <<pvars, fvars>>

New == NewFrom(SeqInputs)

NewRaw == NewFrom(RawInputs)

\* Matrix2D::diag(size, value)
Diag ==
  /\ call = "idle"
  /\ a = NoMatrix \/ b = NoMatrix
  /\ \E size \in 0..MaxDim, value \in Values :
       /\ arg' = Args(<<>>, size, value)
       /\ res' = diag(size, value)
  /\ call' = "diag"
  /\ UNCHANGED <<a, b, edits, steps>>
  /\ UNCHANGED <<pvars, fvars>>

\* let a = <constructor>.unwrap()
BindA ==
  /\ call \in {"new", "diag"}
  /\ res.tag = "Ok"
  /\ a = NoMatrix
  /\ a' = res.m
  /\ call' = "idle"
  /\ arg' = NoArg
  /\ res' = None
  /\ UNCHANGED <<b, edits, steps>>
  /\ UNCHANGED <<pvars, fvars>>

\* let b = <constructor>.unwrap()
BindB ==
  /\ call \in {"new", "diag"}
  /\ res.tag = "Ok"
  /\ a # NoMatrix
  /\ b = NoMatrix
  /\ b' = res.m
  /\ call' = "idle"
  /\ arg' = NoArg
  /\ res' = None
  /\ UNCHANGED <<a, edits, steps>>
  /\ UNCHANGED <<pvars, fvars>>

\* Entries the model goes on with: integers of TLC are 32 bits wide.
Small(m) ==
  \A i \in 1..Len(m.data) : \A j \in 1..Len(m.data[i]) :
    Abs(m.data[i][j].n) <= MaxAbs /\ m.data[i][j].d <= MaxAbs

\* a = a.<op>(&b).unwrap(), or one matrix of the pair of lu_decomposition
Rebind ==
  /\ call \in {"mul", "add", "substract", "lu_decomposition"}
  /\ res.tag = "Ok"
  /\ steps < MaxChain
  /\ \/ a' = res.m
     \/ call = "lu_decomposition" /\ a' = res.m2
  /\ Small(a')
  /\ steps' = steps + 1
  /\ call' = "idle"
  /\ res' = None
  /\ UNCHANGED <<b, arg, edits>>
  /\ UNCHANGED <<pvars, fvars>>

\* IndexMut: a[i][j] = value
SetCell ==
  /\ call = "idle"
  /\ a # NoMatrix
  /\ edits < MaxEdits
  /\ \E i \in 1..Len(a.data) : \E j \in 1..Len(a.data[i]) : \E value \in CellValues :
       a' = [a EXCEPT !.data[i][j] = value]
  /\ edits' = edits + 1
  /\ UNCHANGED <<b, call, arg, res, steps>>
  /\ UNCHANGED <<pvars, fvars>>

Operands == call = "idle" /\ a # NoMatrix /\ b # NoMatrix

\* a.mul(&b)
Mul ==
  /\ Operands
  /\ call' = "mul"
  /\ res' = mul(a, b)
  /\ UNCHANGED <<a, b, arg, edits, steps>>
  /\ UNCHANGED <<pvars, fvars>>

\* a.add(&b)
Add ==
  /\ Operands
  /\ call' = "add"
  /\ res' = add(a, b)
  /\ UNCHANGED <<a, b, arg, edits, steps>>
  /\ UNCHANGED <<pvars, fvars>>

\* a.substract(&b)
Substract ==
  /\ Operands
  /\ call' = "substract"
  /\ res' = substract(a, b)
  /\ UNCHANGED <<a, b, arg, edits, steps>>
  /\ UNCHANGED <<pvars, fvars>>

\* a.lu_decomposition()
LuDecomposition ==
  /\ call = "idle"
  /\ a # NoMatrix
  /\ call' = "lu_decomposition"
  /\ res' = lu_decomposition(a)
  /\ UNCHANGED <<a, b, arg, edits, steps>>
  /\ UNCHANGED <<pvars, fvars>>

\* a.det()
Det ==
  /\ call = "idle"
  /\ a # NoMatrix
  /\ call' = "det"
  /\ res' = det(a)
  /\ UNCHANGED <<a, b, arg, edits, steps>>
  /\ UNCHANGED <<pvars, fvars>>

\* The result goes out of scope.
Return ==
  /\ call # "idle"
  /\ call' = "idle"
  /\ arg' = NoArg
  /\ res' = None
  /\ UNCHANGED <<a, b, edits, steps>>
  /\ UNCHANGED <<pvars, fvars>>

\* Sequences of constructor and algebra calls on two bindings.
Next ==
  \/ New
  \/ Diag
  \/ BindA
  \/ BindB
  \/ Rebind
  \/ Mul
  \/ Add
  \/ Substract
  \/ LuDecomposition
  \/ Det
  \/ Return

Spec == Init /\ [][Next]_vars

\* The validating constructor on every raw input.
NextNew ==
  \/ NewRaw
  \/ Return

SpecNew == Init /\ [][NextNew]_vars

\* One binding, built by new or diag, written through IndexMut, decomposed.
Seeds ==
  {new(data).m : data \in {d \in SeqInputs : new(d).tag = "Ok"}}
    \cup {diag(size, value).m : size \in 1..MaxDim, value \in Values}

InitLU ==
  /\ a \in Seeds
  /\ MatrixIdle
  /\ z = CZero /\ n0 = 1 /\ PowIdle
  /\ fx = <<>> /\ FftIdle

NextLU ==
  \/ SetCell
  \/ LuDecomposition
  \/ Det
  \/ Return

SpecLU == InitLU /\ [][NextLU]_vars

(***************************************************************************)
(* Complex::pow(&self, n: i32): frames holds the n of every call that has  *)
(* not returned yet, the innermost last; ret is what the last call that    *)
(* returned gave back.  n - 1 cannot wrap within MaxDepth calls.           *)
(***************************************************************************)
ComplexInputs == {Complex(R(re), R(im)) : re \in -1..MaxVal, im \in -1..MaxVal}

Top == frames[Len(frames)]

Pop == SubSeq(frames, 1, Len(frames) - 1)

InitPow ==
  /\ a = NoMatrix
  /\ MatrixIdle
  /\ z \in ComplexInputs
  /\ n0 \in (-MaxPow)..MaxPow
  /\ PowIdle
  /\ fx = <<>> /\ FftIdle

\* z.pow(n0)
PowCall ==
  /\ pc = "idle"
  /\ frames' = <<n0>>
  /\ pc' = "call"
  /\ UNCHANGED <<z, n0, ret, mults>>
  /\ UNCHANGED <<mvars, fvars>>

\* x if x == 1 => self.clone()
PowBase ==
  /\ pc = "call"
  /\ pow_base(Top)
  /\ ret' = z
  /\ frames' = Pop
  /\ pc' = IF Len(frames) = 1 THEN "done" ELSE "ret"
  /\ UNCHANGED <<z, n0, mults>>
  /\ UNCHANGED <<mvars, fvars>>

\* _ => .. self.pow(n - 1) ..: the inner call
PowRecurse ==
  /\ pc = "call"
  /\ ~pow_base(Top)
  /\ Len(frames) < MaxDepth
  /\ frames' = Append(frames, Top - 1)
  /\ UNCHANGED <<z, n0, ret, pc, mults>>
  /\ UNCHANGED <<mvars, fvars>>

\* _ => self.multiply(&..): the inner call has returned
PowMultiply ==
  /\ pc = "ret"
  /\ ret' = multiply(z, ret)
  /\ mults' = mults + 1
  /\ frames' = Pop
  /\ pc' = IF Len(frames) = 1 THEN "done" ELSE "ret"
  /\ UNCHANGED <<z, n0>>
  /\ UNCHANGED <<mvars, fvars>>

NextPow ==
  \/ PowCall
  \/ PowBase
  \/ PowRecurse
  \/ PowMultiply

\* The calls of a sequential program go on as long as there is one to make.
SpecPow == InitPow /\ [][NextPow]_vars /\ WF_vars(NextPow)

(***************************************************************************)
(* fft(x): the map over k, and for each k the fold over n.                 *)
(***************************************************************************)
FftValues == {Complex(R(re), R(im)) : re \in 0..MaxVal, im \in 0..1}

FftInputs == UNION {[1..length -> FftValues] : length \in Lengths}

InitFft ==
  /\ a = NoMatrix
  /\ MatrixIdle
  /\ z = CZero /\ n0 = 1 /\ PowIdle
  /\ fx \in FftInputs
  /\ FftIdle

\* fft(x): (0..length).map(..)
FftCall ==
  /\ fpc = "idle"
  /\ fpc' = "map"
  /\ UNCHANGED <<fx, fk, fn, acc, out, folds>>
  /\ UNCHANGED <<mvars, pvars>>

\* x.iter().enumerate().fold(Complex { re: T::zero(), im: T::zero() }, ..)
FftFoldInit ==
  /\ fpc = "map"
  /\ fk < Len(fx)
  /\ acc' = CZero
  /\ fn' = 0
  /\ fpc' = "fold"
  /\ UNCHANGED <<fx, fk, out, folds>>
  /\ UNCHANGED <<mvars, pvars>>

\* |acc, (n, xn)| acc.add(&fft_fold(xn.clone(), n, k, length))
FftFold ==
  /\ fpc = "fold"
  /\ fn < Len(fx)
  /\ acc' = cadd(acc, fft_fold(fx[fn + 1], fn, fk, Len(fx)))
  /\ fn' = fn + 1
  /\ folds' = folds + 1
  /\ UNCHANGED <<fx, fk, out, fpc>>
  /\ UNCHANGED <<mvars, pvars>>

\* the fold is over: its value is element k of the output
FftCollect ==
  /\ fpc = "fold"
  /\ fn = Len(fx)
  /\ out' = Append(out, acc)
  /\ fk' = fk + 1
  /\ fpc' = "map"
  /\ UNCHANGED <<fx, fn, acc, folds>>
  /\ UNCHANGED <<mvars, pvars>>

\* .collect()
FftReturn ==
  /\ fpc = "map"
  /\ fk = Len(fx)
  /\ fpc' = "done"
  /\ UNCHANGED <<fx, fk, fn, acc, out, folds>>
  /\ UNCHANGED <<mvars, pvars>>

NextFft ==
  \/ FftCall
  \/ FftFoldInit
  \/ FftFold
  \/ FftCollect
  \/ FftReturn

SpecFft == InitFft /\ [][NextFft]_vars

(***************************************************************************)
(* Reference notions the properties are stated with.                       *)
(***************************************************************************)
\* At least one row, every row of length width, width >= 1.
Valid(m) ==
  /\ Len(m.data) >= 1
  /\ m.width >= 1
  /\ \A i \in 1..Len(m.data) : Len(m.data[i]) = m.width

\* rows without row 1 and column j
Cofactor(rows, j) ==
  [i \in 1..(Len(rows) - 1) |->
     [k \in 1..(Len(rows) - 1) |-> rows[i + 1][IF k < j THEN k ELSE k + 1]]]

\* The determinant, by expansion along the first row.
RECURSIVE MathDet(_)
MathDet(rows) ==
  IF Len(rows) = 1 THEN rows[1][1]
  ELSE SumSeq([j \in 1..Len(rows) |->
                 SMul(IF j % 2 = 1 THEN rows[1][j] ELSE SSub(Zero, rows[1][j]),
                      MathDet(Cofactor(rows, j)))])

\* The leading principal minor of order k.
LeadingMinor(m, k) == MathDet([i \in 1..k |-> [j \in 1..k |-> m.data[i][j]]])

Square(m) == Len(m.data) = m.width

\* The row-by-column product of two square arrays of the same size.
StdProduct(x, y) ==
  [i \in 1..Len(x) |->
     [j \in 1..Len(x) |-> SumSeq([k \in 1..Len(x) |-> SMul(x[i][k], y[k][j])])]]

(***************************************************************************)
(* C3.  new(rows) returns Err(EmptyMatrix) exactly when rows is empty;     *)
(* otherwise Err(EmptyRow) exactly when the first row is empty; otherwise  *)
(* Err(InconsistentRowLength) exactly when some row's length differs from  *)
(* the first row's; otherwise Ok with the data unchanged and               *)
(* width = Len(rows[1]).                                                   *)
(***************************************************************************)
C3_NewContract ==
  call = "new" =>
    LET rows == arg.data
        empty == Len(rows) = 0
        emptyRow == ~empty /\ Len(rows[1]) = 0
        jagged == ~empty /\ ~emptyRow /\ \E i \in 1..Len(rows) : Len(rows[i]) # Len(rows[1])
    IN  /\ res = Err("EmptyMatrix") <=> empty
        /\ res = Err("EmptyRow") <=> emptyRow
        /\ res = Err("InconsistentRowLength") <=> jagged
        /\ ~empty /\ ~emptyRow /\ ~jagged => res = Ok(Matrix(rows, Len(rows[1])))
        /\ res.tag \in {"Ok", "Err"}

\* A later row is empty while the first is not: InconsistentRowLength.
C3_Witness ==
  /\ call = "new"
  /\ Len(arg.data) >= 2
  /\ Len(arg.data[1]) > 0
  /\ \E i \in 2..Len(arg.data) : Len(arg.data[i]) = 0
  /\ res = Err("InconsistentRowLength")

(***************************************************************************)
(* C1.  mul(A, B) returns Err(NotMultiplicable) exactly when               *)
(* A.width # B.rowCount, and otherwise Ok with a matrix of A.rowCount rows *)
(* and B.width columns; nothing else ever comes out of it.                 *)
(***************************************************************************)
C1_MulContract ==
  call = "mul" =>
    /\ res = Err("NotMultiplicable") <=> a.width # RowCount(b)
    /\ a.width = RowCount(b) =>
         /\ res.tag = "Ok"
         /\ RowCount(res.m) = RowCount(a)
         /\ res.m.width = b.width
         /\ \A i \in 1..RowCount(res.m) : Len(res.m.data[i]) = b.width

(***************************************************************************)
(* C2.  Multiplying a matrix A by the identity of the fitting size returns *)
(* A, on either side: diag(r, 1).mul(A) = Ok(A) and A.mul(diag(w, 1)) =    *)
(* Ok(A).                                                                  *)
(***************************************************************************)
C2_IdentityMul ==
  call = "mul" =>
    /\ a = diag(RowCount(b), One).m => res = Ok(b)
    /\ b = diag(a.width, One).m => res = Ok(a)

(***************************************************************************)
(* C7.  add and substract return Err(NotAdditive) exactly when the widths  *)
(* or the row counts differ; otherwise Ok with the elementwise sum or      *)
(* difference in the same dimensions, so that (A + B) - B = A and          *)
(* A + B = B + A.                                                          *)
(***************************************************************************)
C7_AddSubstract ==
  call \in {"add", "substract"} =>
    LET same == a.width = b.width /\ RowCount(a) = RowCount(b)
    IN  /\ res = Err("NotAdditive") <=> ~same
        /\ same =>
             /\ res.tag = "Ok"
             /\ res.m.width = a.width
             /\ RowCount(res.m) = RowCount(a)
             /\ \A i \in 1..RowCount(a) :
                  /\ Len(res.m.data[i]) = a.width
                  /\ \A j \in 1..a.width :
                       res.m.data[i][j] =
                         IF call = "add" THEN SAdd(a.data[i][j], b.data[i][j])
                         ELSE SSub(a.data[i][j], b.data[i][j])
             /\ call = "add" =>
                  /\ substract(res.m, b) = Ok(a)
                  /\ add(b, a) = res

\* A sum of two different non-zero matrices of more than one cell.
C7_Witness ==
  /\ call = "add"
  /\ res.tag = "Ok"
  /\ RowCount(a) # a.width
  /\ a # b
  /\ res.m # a
  /\ res.m # b

(***************************************************************************)
(* C10.  Every matrix returned as Ok by new, diag, mul, add, substract or  *)
(* lu_decomposition, and every matrix a caller holds, has at least one     *)
(* row and every row of length width >= 1; and no call changes its         *)
(* operands.                                                               *)
(***************************************************************************)
C10_Structure ==
  /\ a # NoMatrix => Valid(a)
  /\ b # NoMatrix => Valid(b)
  /\ (res.tag = "Ok" /\ call \in {"new", "diag", "mul", "add", "substract",
                                   "lu_decomposition"}) => Valid(res.m)
  /\ (res.tag = "Ok" /\ call = "lu_decomposition") => Valid(res.m2)

C10_OperandsKept ==
  (call = "idle" /\ call' # "idle") => (a' = a /\ b' = b)

\* C10: every matrix returned as Ok or held has >= 1 row and every row of length
\* width >= 1, in every state; and a step that makes a call leaves a and b as they were.
C10_StructuralInvariant == [](C10_Structure) /\ [][C10_OperandsKept]_vars

\* mul, after a rebinding, returns a matrix that is not square.
C10_Witness ==
  /\ steps >= 1
  /\ call = "mul"
  /\ res.tag = "Ok"
  /\ RowCount(res.m) # res.m.width

(***************************************************************************)
(* C4.  For a square matrix A whose leading principal minors are all       *)
(* non-zero, lu_decomposition(A) returns Ok((L, U)) with L unit lower      *)
(* triangular, U upper triangular and the row-by-column product L U = A.   *)
(***************************************************************************)
MinorsNonZero(m) == \A k \in 1..m.width : LeadingMinor(m, k) # Zero

UnitLower(l) ==
  \A i \in 1..Len(l) : \A j \in 1..Len(l) :
    /\ i = j => l[i][j] = One
    /\ j > i => l[i][j] = Zero

Upper(u) == \A i \in 1..Len(u) : \A j \in 1..Len(u) : i > j => u[i][j] = Zero

\* C4: with all leading principal minors non-zero, lu_decomposition returns Ok((L, U)),
\* L unit lower triangular, U upper triangular, and L U = A.
C4_LuFactors ==
  (call = "lu_decomposition" /\ Square(a) /\ MinorsNonZero(a)) =>
    /\ res.tag = "Ok"
    /\ Valid(res.m) /\ Valid(res.m2)
    /\ RowCount(res.m) = a.width /\ res.m.width = a.width
    /\ RowCount(res.m2) = a.width /\ res.m2.width = a.width
    /\ UnitLower(res.m.data)
    /\ Upper(res.m2.data)
    /\ StdProduct(res.m.data, res.m2.data) = a.data

\* A 3 x 3 decomposition in which L[2][1] is computed from a non-empty sum and
\* L holds a fraction.
C4_Witness ==
  /\ call = "lu_decomposition"
  /\ Square(a)
  /\ a.width = 3
  /\ MinorsNonZero(a)
  /\ res.tag = "Ok"
  /\ res.m.data[2][1].d > 1
  /\ res.m.data[3][1] # Zero
  /\ res.m2.data[1][2] # Zero
  /\ res.m.data[3][2] # Zero

(***************************************************************************)
(* C5.  For a square matrix A whose leading principal minors are all       *)
(* non-zero, det(A) returns Ok(d) with d the determinant of A.             *)
(***************************************************************************)
C5_Determinant ==
  (call = "det" /\ Square(a) /\ MinorsNonZero(a)) => res = OkScalar(MathDet(a.data))

\* A 3 x 3 determinant that is neither 0 nor 1 nor the product of the diagonal.
C5_Witness ==
  /\ call = "det"
  /\ Square(a)
  /\ a.width = 3
  /\ MinorsNonZero(a)
  /\ res.tag = "Ok"
  /\ res.s # One
  /\ res.s # SMul(a.data[1][1], SMul(a.data[2][2], a.data[3][3]))

(***************************************************************************)
(* C6.  det and lu_decomposition return Err(NotSquare) exactly when        *)
(* rowCount # width and no other error kind ever; on a square matrix of    *)
(* size >= 2 the division by a zero pivot (a leading principal minor of    *)
(* order below the size is zero) is performed, and what comes out is what  *)
(* the scalar type's division by zero produces.                            *)
(***************************************************************************)
ZeroPivot(m) == \E k \in 1..(m.width - 1) : LeadingMinor(m, k) = Zero

\* C6: Err(NotSquare) exactly when rowCount # width, no other error kind; on a square
\* matrix the outcome is that of the scalar division by zero exactly when a pivot
\* used as a divisor is zero.
C6_NotSquareOnly ==
  call \in {"det", "lu_decomposition"} =>
    /\ res = Err("NotSquare") <=> RowCount(a) # a.width
    /\ res.tag = "Err" => res.err = "NotSquare"
    /\ Square(a) => (res.tag = "DivByZero" <=> ZeroPivot(a))
    /\ res.tag \in {"Ok", "Err", "DivByZero"}

\* A zero pivot that is not the first: U[1][1] = 0 after a non-zero U[0][0].
C6_Witness ==
  /\ call = "det"
  /\ Square(a)
  /\ a.width = 3
  /\ a.data[1][1] # Zero
  /\ ZeroPivot(a)
  /\ res.tag = "DivByZero"

(***************************************************************************)
(* C8.  pow(a, n) terminates exactly when n >= 1: for n >= 1 it returns,   *)
(* after n - 1 multiplications, the n-fold product of a; for n <= 0 every  *)
(* recursive call only decreases n, the base case n = 1 is never reached   *)
(* and nothing is returned.                                                *)
(***************************************************************************)
RECURSIVE NFold(_, _)
NFold(zz, m) == IF m = 1 THEN zz ELSE multiply(NFold(zz, m - 1), zz)

C8_Returned ==
  pc = "done" =>
    /\ n0 >= 1
    /\ frames = <<>>
    /\ ret = NFold(z, n0)
    /\ mults = n0 - 1

C8_Descends ==
  n0 <= 0 =>
    /\ pc \in {"idle", "call"}
    /\ \A i \in 1..Len(frames) : frames[i] = n0 - (i - 1) /\ ~pow_base(frames[i])

\* C8: pow returns only for n >= 1, then the n-fold product after n - 1
\* multiplications, and for n >= 1 it does return; for n <= 0 the calls descend from n
\* one by one and never meet the base case.
C8_PowTermination ==
  /\ [](C8_Returned /\ C8_Descends)
  /\ (n0 >= 1) ~> (pc = "done")

\* The largest exponent, on a number with both parts non-zero.
C8_Witness ==
  /\ pc = "done"
  /\ n0 = MaxPow
  /\ mults = MaxPow - 1
  /\ z.re # Zero
  /\ z.im # Zero
  /\ ret # z

(***************************************************************************)
(* C9.  fft(x) on N samples returns N elements, none for N = 0 and then    *)
(* without evaluating any rotation factor; element k is the sum, from      *)
(* (0, 0) and in increasing n, of x[n] times exp(-i 2 pi n k / N), and     *)
(* element 0 is the plain sum of the samples.                              *)
(***************************************************************************)
\* exp(-i 2 pi / length) for the lengths of the model
RootOfUnity(length) ==
  CASE length = 1 -> Complex(One, Zero)
    [] length = 2 -> Complex(R(-1), Zero)
    [] length = 4 -> Complex(Zero, R(-1))

RECURSIVE CPower(_, _)
CPower(w, m) == IF m = 0 THEN Complex(One, Zero) ELSE multiply(CPower(w, m - 1), w)

RECURSIVE DftSum(_, _, _)
DftSum(xs, kk, m) ==
  IF m = 0 THEN CZero
  ELSE cadd(DftSum(xs, kk, m - 1),
            multiply(xs[m], CPower(RootOfUnity(Len(xs)), (m - 1) * kk)))

RECURSIVE PlainSum(_, _)
PlainSum(xs, m) == IF m = 0 THEN CZero ELSE cadd(PlainSum(xs, m - 1), xs[m])

\* C9: when fft has returned, out has Len(fx) elements, element k is the sum in
\* increasing n of fx[n] * exp(-i 2 pi n k / N), element 0 is the plain sum, and
\* fft_fold was evaluated N * N times (never for N = 0).
C9_FftResult ==
  fpc = "done" =>
    /\ Len(out) = Len(fx)
    /\ folds = Len(fx) * Len(fx)
    /\ Len(fx) = 0 => (out = <<>> /\ folds = 0)
    /\ \A kk \in 1..Len(fx) : out[kk] = DftSum(fx, kk - 1, Len(fx))
    /\ Len(fx) >= 1 => out[1] = PlainSum(fx, Len(fx))

\* Four samples whose transform has four different elements.
C9_Witness ==
  /\ fpc = "done"
  /\ Len(fx) = 4
  /\ Cardinality({out[kk] : kk \in 1..4}) = 4
  /\ out[2].im # Zero

====
